---------------------------- MODULE Spec2Model ----------------------------
(***************************************************************************)
(* Baofeng BF-T1 driver (chirp/drivers/bf_t1.py).                          *)
(*                                                                         *)
(* Two state machines share this module:                                   *)
(*   Spec       the clone session: sync_in / sync_out driving              *)
(*              _do_ident, _start_clone_mode, _clean_buffer, _download and *)
(*              _upload over a serial pipe whose replies are chosen by the *)
(*              environment;                                               *)
(*   SpecCodec  the record codec: set_memory / get_memory over the         *)
(*              2048-byte image.                                           *)
(*                                                                         *)
(* Byte strings are sequences of integers 0..255.  Python's 0-based        *)
(* offsets become 1-based indices: image byte at address a is mmap[a + 1]. *)
(***************************************************************************)
EXTENDS Integers, Sequences, FiniteSets, TLC

VARIABLES
    pc,         \* position of the running operation
    op,         \* "none" | "download" | "upload"
    wire,       \* transcript of _send writes and _rawrecv reads, in order
    datacount,  \* _clean_buffer: bytes drained so far
    attempt,    \* _start_clone_mode: loop variable a
    entered,    \* _start_clone_mode: "pending" | "true" | "false" | "raised"
    addr,       \* _download / _upload: loop variable addr
    data,       \* _download: bytes aggregated so far; _upload: image to send
    status,     \* chirp_common.Status: cur, max, msg
    progress,   \* calls of radio.status_fn, as <<cur, max>>
    err,        \* the RadioError raised, or NoErr
    pipe,       \* serial discipline set by _do_ident
    devmem,     \* image held by the device (environment)
    mmap,       \* radio._mmap: the image held by the radio object
    vhf_range,  \* radio._vhf_range
    uhf_range,  \* radio._uhf_range
    prev,       \* image before the last set_memory call
    setarg,     \* the Memory passed to the last set_memory call
    call,       \* the last codec call: its name and its selector
    result,     \* what the last codec call returned or raised
    bw_shift    \* radio._bw_shift: FM VFO writes are byte-swapped

vars == <<pc, op, wire, datacount, attempt, entered, addr, data, status,
          progress, err, pipe, devmem, mmap, vhf_range, uhf_range,
          prev, setarg, call, result, bw_shift>>

sessionVars == <<op, wire, datacount, attempt, entered, addr, data, status,
                 progress, err, pipe, devmem>>

codecVars == <<prev, setarg, call, result, bw_shift>>

-----------------------------------------------------------------------------
(* Program constants                                                       *)

MEM_SIZE == 2048

\* mutant of WRITE_SIZE: the upload loop runs over the whole image
WRITE_SIZE_whole == MEM_SIZE

WRITE_SIZE == 384

BLOCK_SIZE == 16

ACK_CMD == <<6>>

\* b"\x05PROGRAM"
BFT1_magic == <<5, 80, 82, 79, 71, 82, 65, 77>>

\* b" BF9100S"
BFT1_ident == <<32, 66, 70, 57, 49, 48, 48, 83>>

\* STIMEOUT = 0.07 s, in milliseconds
STIMEOUT == 70

\* status.max = 3 in _start_clone_mode
MAGIC_TRIES == 3

\* radio.pipe.read(100) in _clean_buffer
CLEAN_READ == 100

\* datacount > 101 in _clean_buffer
CLEAN_LIMIT == 101

\* ord("R"), ord("W"), and the single bytes of the ident request and the close
CMD_R == 82

CMD_W == 87

IDENT_REQ == <<2>>

\* mutant of CLOSE_CMD: the ACK byte is sent in its place
CLOSE_CMD_ack == <<6>>

\* _send(radio, b"\x62")
CLOSE_CMD == <<98>>

-----------------------------------------------------------------------------
(* Bounds of the model                                                     *)

\* number of distinct test images (radio side and device side)
NumImages == 2

\* number of images with distinct raw channel records the codec starts from
NumCodecImages == 5

-----------------------------------------------------------------------------
(* Helpers                                                                 *)

NoErr == [msg |-> "", addr |-> -1]

RadioError(m, a) == [msg |-> m, addr |-> a]

Tx(bytes) == [dir |-> "tx", bytes |-> bytes]

Rx(bytes) == [dir |-> "rx", bytes |-> bytes]

\* data[a : a + n] of Python on a byte string
Slice(s, a, n) == SubSeq(s, a + 1, a + n)

\* a test image: every 16-byte block differs from the others
Image(i) == [k \in 1..MEM_SIZE |->
               ((k - 1) * 7 + i * 101 + ((k - 1) \div BLOCK_SIZE) * 3) % 256]

Images == {Image(i) : i \in 0..(NumImages - 1)}


-----------------------------------------------------------------------------
(* chirp.bitwise BCD fields (lbcd: least significant byte first)           *)

BcdByte(b) == (b \div 16) * 10 + (b % 16)

RECURSIVE LbcdInt(_)
LbcdInt(s) == IF s = <<>> THEN 0 ELSE BcdByte(Head(s)) + 100 * LbcdInt(Tail(s))

\* settings.vhfl, vhfh, uhfl, uhfh: lbcd[2] at 0x150, 0x152, 0x154, 0x156
SETTINGS_BASE == 336

Vhfl(m) == Slice(m, SETTINGS_BASE, 2)

Vhfh(m) == Slice(m, SETTINGS_BASE + 2, 2)

Uhfl(m) == Slice(m, SETTINGS_BASE + 4, 2)

Uhfh(m) == Slice(m, SETTINGS_BASE + 6, 2)

decode_ranges(low, high) == <<LbcdInt(low) * 100000, LbcdInt(high) * 100000>>

-----------------------------------------------------------------------------
(* Frames                                                                  *)

\* struct.pack(">BHB", ord(cmd), addr, BLOCK_SIZE) + data
make_frame(cmd, a, d) == <<cmd, a \div 256, a % 256, BLOCK_SIZE>> \o d

\* _rawrecv when radio.pipe.read returned r: raises on an empty read
rawrecv(r) ==
    IF Len(r) = 0
    THEN [ok |-> FALSE, err |-> RadioError("Error reading data from radio", -1)]
    ELSE [ok |-> TRUE, err |-> NoErr]

\* mutant of recv: the header check leaves out the address
recv_no_addr(block, a) ==
    IF ~rawrecv(block).ok
    THEN [ok |-> FALSE, data |-> <<>>, err |-> rawrecv(block).err]
    ELSE IF Len(block) # BLOCK_SIZE + 4
    THEN [ok |-> FALSE, data |-> <<>>,
          err |-> RadioError("Wrong block length", a)]
    ELSE IF block[1] # CMD_W \/ block[4] # BLOCK_SIZE
    THEN [ok |-> FALSE, data |-> <<>>,
          err |-> RadioError("Invalid header for block", a)]
    ELSE [ok |-> TRUE, data |-> SubSeq(block, 5, Len(block)), err |-> NoErr]

\* _recv when the pipe returned block to _rawrecv(radio, BLOCK_SIZE + 4):
\* the payload, or the RadioError raised
recv(block, a) ==
    IF ~rawrecv(block).ok
    THEN [ok |-> FALSE, data |-> <<>>, err |-> rawrecv(block).err]
    ELSE IF Len(block) < BLOCK_SIZE + 4
    THEN [ok |-> FALSE, data |-> <<>>,
          err |-> RadioError("Wrong block length (short)", a)]
    ELSE IF Len(block) > BLOCK_SIZE + 4
    THEN [ok |-> FALSE, data |-> <<>>,
          err |-> RadioError("Wrong block length (long)", a)]
    ELSE IF block[1] # CMD_W \/ block[2] * 256 + block[3] # a
            \/ block[4] # BLOCK_SIZE
    THEN [ok |-> FALSE, data |-> <<>>,
          err |-> RadioError("Invalid header for block", a)]
    ELSE [ok |-> TRUE, data |-> SubSeq(block, 5, Len(block)), err |-> NoErr]

\* mutant of magic_outcome: the loop makes one pass more
magic_outcome_once_more(r, a) ==
    IF ~rawrecv(r).ok THEN "raise"
    ELSE IF r = ACK_CMD THEN "true"
    ELSE IF a + 1 < MAGIC_TRIES + 1 THEN "retry"
    ELSE "false"

\* _start_clone_mode, pass a of the loop, when the pipe returned r to
\* _rawrecv(radio, 1): "raise", "true" (return True), "retry" (next pass)
\* or "false" (the loop is over, return False)
magic_outcome(r, a) ==
    IF ~rawrecv(r).ok THEN "raise"
    ELSE IF r = ACK_CMD THEN "true"
    ELSE IF a + 1 < MAGIC_TRIES THEN "retry"
    ELSE "false"

\* mutant of ident_check: only the length of the ident is checked
ident_check_length_only(r) ==
    IF ~rawrecv(r).ok THEN rawrecv(r)
    ELSE IF Len(r) # Len(BFT1_ident)
    THEN [ok |-> FALSE, err |-> RadioError("Radio send a odd identification block.", -1)]
    ELSE [ok |-> TRUE, err |-> NoErr]

\* _do_ident: the checks on ident = _rawrecv(radio, len(radio._id))
ident_check(r) ==
    IF ~rawrecv(r).ok THEN rawrecv(r)
    ELSE IF Len(r) # Len(BFT1_ident)
    THEN [ok |-> FALSE, err |-> RadioError("Radio send a odd identification block.", -1)]
    ELSE IF r # BFT1_ident
    THEN [ok |-> FALSE, err |-> RadioError("Radio identification failed.", -1)]
    ELSE [ok |-> TRUE, err |-> NoErr]

\* _do_ident: the check on ack = _rawrecv(radio, 1) after the ident
ident_ack_check(r) ==
    IF ~rawrecv(r).ok THEN rawrecv(r)
    ELSE IF Len(r) = 1 /\ r = ACK_CMD
    THEN [ok |-> TRUE, err |-> NoErr]
    ELSE [ok |-> FALSE, err |-> RadioError("Radio handshake failed.", -1)]

\* mutant of write_ack_check: any single byte is taken for the ACK
write_ack_check_any_byte(r, a) ==
    IF ~rawrecv(r).ok THEN rawrecv(r)
    ELSE IF Len(r) # 1
    THEN [ok |-> FALSE, err |-> RadioError("No ACK when writing block", a)]
    ELSE [ok |-> TRUE, err |-> NoErr]

\* _upload: the checks on ack = _rawrecv(radio, 1) after the frame for a
write_ack_check(r, a) ==
    IF ~rawrecv(r).ok THEN rawrecv(r)
    ELSE IF Len(r) # 1
    THEN [ok |-> FALSE, err |-> RadioError("No ACK when writing block", a)]
    ELSE IF r # ACK_CMD
    THEN [ok |-> FALSE, err |-> RadioError("Bad ACK writing block", a)]
    ELSE [ok |-> TRUE, err |-> NoErr]

\* mutant of Aggregate: the block is put in front
Aggregate_front(acc, d) == d \o acc

\* data += d in _download
Aggregate(acc, d) == acc \o d

\* mutant of HasNext: the loop stops half way
HasNext_half(a, size) == a + BLOCK_SIZE < size \div 2

\* range(0, size, BLOCK_SIZE): whether the loop has another address after a
HasNext(a, size) == a + BLOCK_SIZE < size

-----------------------------------------------------------------------------
(* What the pipe may return to a read.  The pipe is an external            *)
(* collaborator; the driver itself guards against reads longer than asked  *)
(* (in _recv, _do_ident and _upload), so the model lets a read return them.*)

\* replies to a 1-byte read: ACK, another byte, nothing, more than asked
AckReplies == {<<6>>, <<21>>, <<>>, <<6, 6>>}

\* replies to the identification read
IdentReplies == {BFT1_ident,
                 <<32, 66, 70, 45, 56, 56, 56, 83>>,
                 SubSeq(BFT1_ident, 1, 7),
                 BFT1_ident \o <<0>>,
                 <<>>}

\* replies of a device holding image dm to the read request for address a
BlockReplies(dm, a) ==
    LET payload == Slice(dm, a, BLOCK_SIZE)
        good == make_frame(CMD_W, a, payload)
    IN  {good,
         make_frame(CMD_R, a, payload),
         make_frame(CMD_W, (a + BLOCK_SIZE) % MEM_SIZE, payload),
         <<CMD_W, a \div 256, a % 256, BLOCK_SIZE - 1>> \o payload,
         SubSeq(good, 1, BLOCK_SIZE + 3),
         good \o <<0>>,
         <<>>}

\* mutant of step_of: the blocks still to do are reported
step_of_remaining(a) == (MEM_SIZE - a) \div BLOCK_SIZE

\* _download / _upload: status.cur = addr // BLOCK_SIZE
step_of(a) == a \div BLOCK_SIZE

\* mutant of clean_overrun: the limit is twice as high
clean_overrun_late(count) == count > 2 * CLEAN_LIMIT

\* _clean_buffer: if datacount > 101 (after datacount += len(dump))
clean_overrun(count) == count > CLEAN_LIMIT

\* sizes a radio.pipe.read(100) may return while draining
DrainSizes == {0, 1, 40, CLEAN_READ}

-----------------------------------------------------------------------------
(* Initial states                                                          *)

InitStatus == [cur |-> 0, max |-> 100, msg |-> "Unknown"]

InitPipe == [baudrate |-> 0, parity |-> "", bytesize |-> 0, stopbits |-> 0,
             timeout |-> 0]

InitSessionVars ==
    /\ op = "none"
    /\ wire = <<>>
    /\ datacount = 0
    /\ attempt = 0
    /\ entered = "pending"
    /\ addr = 0
    /\ data = <<>>
    /\ status = InitStatus
    /\ progress = <<>>
    /\ err = NoErr
    /\ pipe = InitPipe
    /\ devmem = <<>>

InitCodecVars ==
    /\ prev = <<>>
    /\ setarg = [kind |-> "none"]
    /\ call = [name |-> "none"]
    /\ result = [kind |-> "none"]
    /\ bw_shift = FALSE

\* a radio object bound to an image (process_mmap has run)
Init ==
    /\ pc = "idle"
    /\ InitSessionVars
    /\ InitCodecVars
    /\ mmap \in Images
    /\ vhf_range = decode_ranges(Vhfl(mmap), Vhfh(mmap))
    /\ uhf_range = decode_ranges(Uhfl(mmap), Uhfh(mmap))

-----------------------------------------------------------------------------
(* The clone session                                                       *)

Raise(e) == pc' = "fail" /\ err' = e

\* _do_ident up to the first read of _clean_buffer
do_ident_begin ==
    /\ pipe' = [baudrate |-> 9600, parity |-> "N", bytesize |-> 8,
                stopbits |-> 1, timeout |-> STIMEOUT]
    /\ status' = InitStatus
    /\ datacount' = 0
    /\ pc' = "clean1"

\* sync_in: _download starts; the device holds some image
SyncInStart ==
    /\ pc = "idle"
    /\ op' = "download"
    /\ devmem' \in Images
    /\ do_ident_begin
    /\ UNCHANGED <<wire, attempt, entered, addr, data, progress, err, mmap,
                   vhf_range, uhf_range, codecVars>>

\* sync_out: _upload starts
SyncOutStart ==
    /\ pc = "idle"
    /\ op' = "upload"
    /\ do_ident_begin
    /\ UNCHANGED <<wire, attempt, entered, addr, data, progress, err, devmem,
                   mmap, vhf_range, uhf_range, codecVars>>

\* one radio.pipe.read(100) of _clean_buffer in _start_clone_mode; when the
\* buffer is clean: status set up, first pass of the loop up to its read
CleanBuffer1 ==
    /\ pc = "clean1"
    /\ \E n \in DrainSizes :
         /\ IF clean_overrun(datacount + n)
            THEN /\ datacount' = datacount + n
                 /\ Raise(RadioError("Unknown error cleaning the serial buffer", -1))
                 /\ UNCHANGED <<status, progress, attempt, wire>>
            ELSE IF n > 0
            THEN /\ datacount' = datacount + n
                 /\ UNCHANGED <<pc, err, status, progress, attempt, wire>>
            ELSE /\ datacount' = 0
                 /\ attempt' = 0
                 /\ status' = [cur |-> 1, max |-> MAGIC_TRIES,
                               msg |-> "Identifying the radio..."]
                 /\ progress' = progress \o <<<<0, MAGIC_TRIES>>, <<1, MAGIC_TRIES>>>>
                 /\ wire' = Append(wire, Tx(BFT1_magic))
                 /\ pc' = "magic"
                 /\ UNCHANGED err
    /\ UNCHANGED <<op, entered, addr, data, pipe, devmem, mmap, vhf_range,
                   uhf_range, codecVars>>

\* _start_clone_mode: ack = _rawrecv(radio, 1) and what follows it, up to
\* the next read (the next magic, or the ident request of _do_ident)
MagicReply ==
    /\ pc = "magic"
    /\ \E r \in AckReplies :
         LET out == magic_outcome(r, attempt) IN
         IF out = "raise"
         THEN /\ wire' = Append(wire, Rx(r))
              /\ entered' = "raised"
              /\ Raise(rawrecv(r).err)
              /\ UNCHANGED <<attempt, status, progress>>
         ELSE IF out = "true"
         THEN /\ entered' = "true"
              /\ status' = [status EXCEPT !.cur = status.max]
              /\ progress' = Append(progress, <<status.max, status.max>>)
              /\ wire' = wire \o <<Rx(r), Tx(IDENT_REQ)>>
              /\ pc' = "ident"
              /\ UNCHANGED <<attempt, err>>
         ELSE IF out = "retry"
         THEN /\ attempt' = attempt + 1
              /\ status' = [status EXCEPT !.cur = attempt + 2]
              /\ progress' = Append(progress, <<attempt + 2, status.max>>)
              /\ wire' = wire \o <<Rx(r), Tx(BFT1_magic)>>
              /\ UNCHANGED <<pc, err, entered>>
         ELSE /\ entered' = "false"
              /\ wire' = Append(wire, Rx(r))
              /\ Raise(RadioError("Radio did not enter clone mode, wrong model?", -1))
              /\ UNCHANGED <<attempt, status, progress>>
    /\ UNCHANGED <<op, datacount, addr, data, pipe, devmem, mmap, vhf_range,
                   uhf_range, codecVars>>

\* _do_ident: ident = _rawrecv(radio, len(radio._id)), its two checks, and
\* the ACK sent back
IdentReply ==
    /\ pc = "ident"
    /\ \E r \in IdentReplies :
         /\ IF ~ident_check(r).ok
            THEN /\ wire' = Append(wire, Rx(r))
                 /\ Raise(ident_check(r).err)
            ELSE /\ wire' = wire \o <<Rx(r), Tx(ACK_CMD)>>
                 /\ pc' = "identack"
                 /\ UNCHANGED err
    /\ UNCHANGED <<op, datacount, attempt, entered, addr, data, status,
                   progress, pipe, devmem, mmap, vhf_range, uhf_range,
                   codecVars>>

\* _do_ident: ack = _rawrecv(radio, 1) after the ident; then _download or
\* _upload resets the progress and enters its _clean_buffer
IdentAckReply ==
    /\ pc = "identack"
    /\ \E r \in AckReplies :
         /\ wire' = Append(wire, Rx(r))
         /\ IF ~ident_ack_check(r).ok
            THEN /\ Raise(ident_ack_check(r).err)
                 /\ UNCHANGED <<status, progress, datacount, data>>
            ELSE /\ IF op = "download"
                    THEN /\ status' = [cur |-> 0, max |-> MEM_SIZE \div BLOCK_SIZE,
                                       msg |-> "Cloning from radio..."]
                         /\ progress' = Append(progress, <<0, MEM_SIZE \div BLOCK_SIZE>>)
                         /\ UNCHANGED data
                    ELSE /\ data' = mmap
                         /\ status' = [cur |-> 0, max |-> WRITE_SIZE \div BLOCK_SIZE,
                                       msg |-> "Cloning to radio..."]
                         /\ progress' = Append(progress, <<0, WRITE_SIZE \div BLOCK_SIZE>>)
                 /\ datacount' = 0
                 /\ pc' = "clean2"
                 /\ UNCHANGED err
    /\ UNCHANGED <<op, attempt, entered, addr, pipe, devmem, mmap, vhf_range,
                   uhf_range, codecVars>>

\* one radio.pipe.read(100) of _clean_buffer in _download / _upload; when the
\* buffer is clean: the first pass of the block loop up to its read
CleanBuffer2 ==
    /\ pc = "clean2"
    /\ \E n \in DrainSizes :
         /\ IF clean_overrun(datacount + n)
            THEN /\ datacount' = datacount + n
                 /\ Raise(RadioError("Unknown error cleaning the serial buffer", -1))
                 /\ UNCHANGED <<addr, data, wire>>
            ELSE IF n > 0
            THEN /\ datacount' = datacount + n
                 /\ UNCHANGED <<pc, err, addr, data, wire>>
            ELSE /\ datacount' = 0
                 /\ addr' = 0
                 /\ IF op = "download"
                    THEN /\ data' = <<>>
                         /\ wire' = Append(wire, Tx(make_frame(CMD_R, 0, <<>>)))
                         /\ pc' = "block"
                    ELSE /\ wire' = Append(wire,
                              Tx(make_frame(CMD_W, 0, Slice(data, 0, BLOCK_SIZE))))
                         /\ pc' = "wack"
                         /\ UNCHANGED data
                 /\ UNCHANGED err
    /\ UNCHANGED <<op, attempt, entered, status, progress, pipe, devmem, mmap,
                   vhf_range, uhf_range, codecVars>>

\* _download: d = _recv(radio, addr), data += d, progress, then the next
\* read request; after the last block the close byte, and sync_in binds the
\* image (self._mmap = data; process_mmap())
BlockReply ==
    /\ pc = "block"
    /\ \E r \in BlockReplies(devmem, addr) :
         LET got == recv(r, addr) IN
         IF ~got.ok
         THEN /\ wire' = Append(wire, Rx(r))
              /\ Raise(got.err)
              /\ UNCHANGED <<addr, data, status, progress, mmap, vhf_range,
                             uhf_range>>
         ELSE /\ data' = Aggregate(data, got.data)
              /\ status' = [status EXCEPT !.cur = step_of(addr),
                                          !.msg = "Cloning from radio..."]
              /\ progress' = Append(progress, <<step_of(addr), status.max>>)
              /\ UNCHANGED err
              /\ IF HasNext(addr, MEM_SIZE)
                 THEN /\ addr' = addr + BLOCK_SIZE
                      /\ wire' = wire \o
                           <<Rx(r), Tx(make_frame(CMD_R, addr + BLOCK_SIZE, <<>>))>>
                      /\ UNCHANGED <<pc, mmap, vhf_range, uhf_range>>
                 ELSE /\ wire' = wire \o <<Rx(r), Tx(CLOSE_CMD)>>
                      /\ mmap' = data'
                      /\ vhf_range' = decode_ranges(Vhfl(data'), Vhfh(data'))
                      /\ uhf_range' = decode_ranges(Uhfl(data'), Uhfh(data'))
                      /\ pc' = "done"
                      /\ UNCHANGED addr
    /\ UNCHANGED <<op, datacount, attempt, entered, pipe, devmem, codecVars>>

\* _upload: ack = _rawrecv(radio, 1) after a write frame, its checks,
\* progress, then the next write frame; after the last one the close byte
WriteReply ==
    /\ pc = "wack"
    /\ \E r \in AckReplies :
         IF ~write_ack_check(r, addr).ok
         THEN /\ wire' = Append(wire, Rx(r))
              /\ Raise(write_ack_check(r, addr).err)
              /\ UNCHANGED <<addr, status, progress>>
         ELSE /\ status' = [status EXCEPT !.cur = step_of(addr),
                                          !.msg = "Cloning to radio..."]
              /\ progress' = Append(progress, <<step_of(addr), status.max>>)
              /\ UNCHANGED err
              /\ IF HasNext(addr, WRITE_SIZE)
                 THEN /\ addr' = addr + BLOCK_SIZE
                      /\ wire' = wire \o
                           <<Rx(r), Tx(make_frame(CMD_W, addr + BLOCK_SIZE,
                                         Slice(data, addr + BLOCK_SIZE, BLOCK_SIZE)))>>
                      /\ UNCHANGED pc
                 ELSE /\ wire' = wire \o <<Rx(r), Tx(CLOSE_CMD)>>
                      /\ pc' = "done"
                      /\ UNCHANGED addr
    /\ UNCHANGED <<op, datacount, attempt, entered, data, pipe, devmem, mmap,
                   vhf_range, uhf_range, codecVars>>

Next ==
    \/ SyncInStart
    \/ SyncOutStart
    \/ CleanBuffer1
    \/ MagicReply
    \/ IdentReply
    \/ IdentAckReply
    \/ CleanBuffer2
    \/ BlockReply
    \/ WriteReply

Spec == Init /\ [][Next]_vars

\* the session with its progress: the clone functions are sequential code
\* and each of their reads returns within the pipe's timeout, so a step
\* that can be taken is taken
LiveSpec == Init /\ [][Next]_vars /\ WF_vars(Next)

-----------------------------------------------------------------------------
(* Reading the transcript                                                  *)

\* a block read ('R') or write ('W') frame written by the client
IsBlockFrame(e) == e.dir = "tx" /\ Len(e.bytes) >= 4 /\ e.bytes[1] \in {82, 87}

IsReadFrame(e) == e.dir = "tx" /\ Len(e.bytes) = 4 /\ e.bytes[1] = 82

IsWriteFrame(e) == e.dir = "tx" /\ Len(e.bytes) >= 4 /\ e.bytes[1] = 87

FrameAddr(e) == e.bytes[2] * 256 + e.bytes[3]

HasBlockFrame == \E i \in 1..Len(wire) : IsBlockFrame(wire[i])

WriteFrames == SelectSeq(wire, IsWriteFrame)

MagicSent == Cardinality({i \in 1..Len(wire) : wire[i] = Tx(<<5, 80, 82, 79, 71, 82, 65, 77>>)})

\* the i-th handshake attempt was made and its reply was not the ACK
AttemptFailed(i) ==
    /\ Len(wire) >= 2 * i
    /\ wire[2 * i - 1] = Tx(<<5, 80, 82, 79, 71, 82, 65, 77>>)
    /\ wire[2 * i].dir = "rx"
    /\ wire[2 * i].bytes # <<6>>

\* the six events of a complete handshake and identification
Handshake ==
    << Tx(<<5, 80, 82, 79, 71, 82, 65, 77>>), Rx(<<6>>),
       Tx(<<2>>), Rx(<<32, 66, 70, 57, 49, 48, 48, 83>>),
       Tx(<<6>>), Rx(<<6>>) >>

\* the payload the device answered to the read request for address a
AnsweredPayload(a) ==
    LET i == CHOOSE j \in 1..Len(wire) : IsReadFrame(wire[j]) /\ FrameAddr(wire[j]) = a
    IN  SubSeq(wire[i + 1].bytes, 5, 20)

-----------------------------------------------------------------------------
(* Claims on the clone session (specification Spec)                        *)

\* C1: after a successful download the returned image is exactly 2048 bytes
\* and bytes 16k..16k+15 of it are the payload of the block the device
\* answered for address 16k, k = 0..127; sync_in binds that image.
C1_DownloadImage ==
    (pc = "done" /\ op = "download") =>
        /\ Len(data) = 2048
        /\ mmap = data
        /\ \A k \in 0..127 :
             SubSeq(data, 16 * k + 1, 16 * k + 16) = AnsweredPayload(16 * k)

C1_Witness == pc = "done" /\ op = "download" /\ Len(wire) > 256 /\ mmap = devmem

\* C2: every write frame the upload sends carries the next address of
\* 0, 16, ..., 368 with bytes addr..addr+15 of the image, none carries an
\* address at or above 0x180, and a successful upload has sent exactly 24.
C2_UploadFrames ==
    /\ \A i \in 1..Len(WriteFrames) :
         LET f == WriteFrames[i].bytes
             a == FrameAddr(WriteFrames[i])
         IN  /\ a = 16 * (i - 1)
             /\ a < 384
             /\ Len(f) = 20
             /\ f[4] = 16
             /\ SubSeq(f, 5, 20) = SubSeq(mmap, a + 1, a + 16)
    /\ (pc = "done" /\ op = "upload") => Len(WriteFrames) = 24

C2_Witness == pc = "done" /\ op = "upload" /\ Len(WriteFrames) = 24

\* C3: when the 1-byte response to a write frame is not the ACK 0x06 the
\* upload has failed with a RadioError naming that frame's address, and the
\* response is the last event on the channel (no further frame is sent).
C3_UploadAbort ==
    \A i \in 2..Len(wire) :
        ( /\ IsWriteFrame(wire[i - 1])
          /\ wire[i].dir = "rx"
          /\ Len(wire[i].bytes) = 1
          /\ wire[i].bytes # <<6>> )
        => /\ pc = "fail"
           /\ i = Len(wire)
           /\ err.msg = "Bad ACK writing block"
           /\ err.addr = FrameAddr(wire[i - 1])

C3_Witness ==
    /\ pc = "fail"
    /\ op = "upload"
    /\ Len(WriteFrames) = 3
    /\ wire[Len(wire)] = Rx(<<21>>)
    /\ err.addr = 32

\* C4: the magic is sent at most 3 times; the handshake returns true at the
\* first attempt answered 0x06 and sends no magic after it; it returns false
\* when all 3 attempts fail to get 0x06.
C4_HandshakeAttempts ==
    /\ MagicSent <= 3
    /\ entered = "true" =>
         \E i \in 1..3 :
            /\ MagicSent = i
            /\ wire[2 * i] = Rx(<<6>>)
            /\ \A j \in 1..(i - 1) : AttemptFailed(j)
    /\ (AttemptFailed(1) /\ AttemptFailed(2) /\ AttemptFailed(3)) => entered = "false"

\* C5: a handshake attempt that gets no byte, or a wrong byte, counts as
\* one failed attempt and is followed by the next attempt; if that one is
\* answered 0x06 the handshake has returned true.
C5_SilentAttemptRetried ==
    AttemptFailed(1) =>
        /\ Len(wire) >= 3
        /\ wire[3] = Tx(<<5, 80, 82, 79, 71, 82, 65, 77>>)
        /\ (Len(wire) >= 4 /\ wire[4] = Rx(<<6>>)) => entered = "true"

\* C6: a block read or write frame is on the channel only after, in this
\* order, the magic was acknowledged, the request 0x02 was answered with the
\* expected identification and the client's 0x06 was answered 0x06; a wrong
\* identification or a wrong last reply fails the session with no block
\* frame sent.
C6_BlocksOnlyAfterIdent ==
    /\ \A i \in 1..Len(wire) :
         IsBlockFrame(wire[i]) =>
            \E j \in 1..(i - 6) : SubSeq(wire, j, j + 5) = Handshake
    /\ \A i \in 2..Len(wire) :
         ( /\ wire[i].dir = "rx"
           /\ \/ wire[i - 1] = Tx(<<2>>) /\ wire[i].bytes # <<32, 66, 70, 57, 49, 48, 48, 83>>
              \/ wire[i - 1] = Tx(<<6>>) /\ wire[i].bytes # <<6>> )
         => pc = "fail" /\ err # NoErr /\ ~HasBlockFrame

C6_Witness ==
    /\ HasBlockFrame
    /\ AttemptFailed(1)
    /\ pc = "block"
    /\ addr = 32

\* C7: the reply to the read request for an address yields its 16 payload
\* bytes exactly when it is 20 bytes long with command 'W', that big-endian
\* address and length byte 16; every other reply raises, and the download
\* fails there.
C7_ParseBlock ==
    \A i \in 2..Len(wire) :
        (IsReadFrame(wire[i - 1]) /\ wire[i].dir = "rx") =>
            LET b == wire[i].bytes
                a == FrameAddr(wire[i - 1])
            IN  IF /\ Len(b) = 20
                   /\ b[1] = 87
                   /\ b[2] * 256 + b[3] = a
                   /\ b[4] = 16
                THEN /\ Len(data) >= a + 16
                     /\ SubSeq(data, a + 1, a + 16) = SubSeq(b, 5, 20)
                     /\ (pc = "fail" => i < Len(wire))
                ELSE /\ pc = "fail"
                     /\ i = Len(wire)
                     /\ err # NoErr
                     /\ Len(data) = a

C7_Witness ==
    /\ pc = "fail"
    /\ op = "download"
    /\ err = RadioError("Invalid header for block", 48)
    /\ Len(data) = 48

-----------------------------------------------------------------------------
(* The record codec: tables and the channel layout of MEM_FORMAT           *)

MODES == <<"NFM", "FM">>

SKIP_VALUES == <<"S", "">>

\* chirp_common.TONES, in tenths of a hertz
TONES ==
    << 670, 693, 719, 744, 770, 797, 825, 854, 885, 915, 948, 974, 1000,
       1035, 1072, 1109, 1148, 1188, 1230, 1273, 1318, 1365, 1413, 1462,
       1514, 1567, 1598, 1622, 1655, 1679, 1713, 1738, 1773, 1799, 1835,
       1862, 1899, 1928, 1966, 1995, 2035, 2065, 2107, 2181, 2257, 2291,
       2336, 2418, 2503, 2541 >>

\* tuple(sorted(chirp_common.DTCS_CODES + (645,)))
DTCS ==
    << 23, 25, 26, 31, 32, 36, 43, 47, 51, 53, 54, 65, 71, 72, 73, 74, 114,
       115, 116, 122, 125, 131, 132, 134, 143, 145, 152, 155, 156, 162, 165,
       172, 174, 205, 212, 223, 225, 226, 243, 244, 245, 246, 251, 252, 255,
       261, 263, 265, 266, 271, 274, 306, 311, 315, 325, 331, 332, 343, 346,
       351, 356, 364, 365, 371, 411, 412, 413, 423, 431, 432, 445, 446, 452,
       454, 455, 462, 464, 465, 466, 503, 506, 516, 523, 526, 532, 546, 565,
       606, 612, 624, 627, 631, 632, 645, 654, 662, 664, 703, 712, 723, 731,
       732, 734, 743, 754 >>

\* list.index / tuple.index, 0-based; -1 stands for the ValueError
IndexOf(seq, x) ==
    IF \E i \in 1..Len(seq) : seq[i] = x
    THEN (CHOOSE i \in 1..Len(seq) : seq[i] = x /\ \A j \in 1..(i - 1) : seq[j] # x) - 1
    ELSE -1

\* SPECIALS = {"EMG": -2, "RLY": -1}
SPECIALS(name) == IF name = "EMG" THEN -2 ELSE -1

\* a selector: a special channel's name, or a number
StrSel(name) == [str |-> name, num |-> 0]

NumSel(n) == [str |-> "", num |-> n]

\* struct channel: offsets of its fields and masks of its flag bits
CHANNEL_SIZE == 16

RXTONE_AT == 4

TXOFFSET_AT == 5

TXTONE_AT == 9

FLAGS_AT == 10

NOSKIP == 128

WIDE == 64

TTONDINV == 32

RTONDINV == 8

OFFPLUS == 2

OFFMINUS == 1

\* #seekto 0x0000 emg; #seekto 0x0010 channels[20]; #seekto 0x0170 rly
EMG_BASE == 0

CHANNELS_BASE == 16

RLY_BASE == 368

\* mem.offset > 71000000 in get_memory
SPLIT_LIMIT == 71000000

\* one bcdDataElement.set_value: two decimal digits into a byte
BcdEnc(v) == (v \div 10) * 16 + (v % 10)

\* arrayDataElement.__set_value_lbcd on n bytes
IntToLbcd(value, n) == [j \in 1..n |-> BcdEnc((value \div (100 ^ (j - 1))) % 100)]

\* a bit field of a byte
GetBit(byte, mask) == (byte \div mask) % 2

SetBit(byte, mask, v) == byte - GetBit(byte, mask) * mask + v * mask

\* s with the bytes from offset a (0-based) on replaced by bytes
PutSlice(s, a, bytes) ==
    SubSeq(s, 1, a) \o bytes \o SubSeq(s, a + Len(bytes) + 1, Len(s))

\* mutant of get_special: the channels are counted from 0
get_special_from0(number) ==
    IF number.str # ""
    THEN IF number.str = "EMG" THEN EMG_BASE ELSE RLY_BASE
    ELSE IF number.num < 0
    THEN IF number.num = SPECIALS("EMG") THEN EMG_BASE ELSE RLY_BASE
    ELSE CHANNELS_BASE + CHANNEL_SIZE * number.num

\* BFT1._get_special: the address of the record the selector names
get_special(number) ==
    IF number.str # ""
    THEN IF number.str = "EMG" THEN EMG_BASE ELSE RLY_BASE
    ELSE IF number.num < 0
    THEN IF number.num = SPECIALS("EMG") THEN EMG_BASE ELSE RLY_BASE
    ELSE CHANNELS_BASE + CHANNEL_SIZE * (number.num - 1)

-----------------------------------------------------------------------------
(* Tones as split_tone_encode gives them and split_tone_decode takes them: *)
(* (mode, value, polarity), None written as 0 or ""                        *)

NoTone == [mode |-> "", val |-> 0, pol |-> ""]

Tone(v) == [mode |-> "Tone", val |-> v, pol |-> ""]

Dtcs(c, p) == [mode |-> "DTCS", val |-> c, pol |-> p]

\* BFT1._decode_tone
decode_tone(val, inv) ==
    IF val = 0 THEN [ok |-> TRUE, tone |-> NoTone]
    ELSE IF val < 51 THEN [ok |-> TRUE, tone |-> Tone(TONES[val])]
    ELSE IF val - 51 >= Len(DTCS) THEN [ok |-> FALSE, tone |-> NoTone]
    ELSE [ok |-> TRUE,
          tone |-> Dtcs(DTCS[val - 50], IF inv = 1 THEN "R" ELSE "N")]

\* mutant of inversion: every digital code is stored inverted
inversion_always(pol) == 1

\* BFT1._encode_tone: meminv.set_value(True) if pol == "R", else False
inversion(pol) == IF pol = "R" THEN 1 ELSE 0

\* BFT1._encode_tone on record r, tone byte at offset at, inversion bit mask
encode_tone(r, at, mask, t) ==
    IF t.mode = ""
    THEN [ok |-> TRUE, err |-> "",
          rec |-> [r EXCEPT ![at + 1] = 0,
                            ![FLAGS_AT + 1] = SetBit(r[FLAGS_AT + 1], mask, 0)]]
    ELSE IF t.mode = "Tone"
    THEN IF IndexOf(TONES, t.val) < 0
         THEN [ok |-> FALSE, err |-> "RadioError", rec |-> r]
         ELSE [ok |-> TRUE, err |-> "",
               rec |-> [r EXCEPT ![at + 1] = IndexOf(TONES, t.val) + 1,
                                 ![FLAGS_AT + 1] = SetBit(r[FLAGS_AT + 1], mask, 0)]]
    ELSE IF t.mode = "DTCS"
    THEN IF IndexOf(DTCS, t.val) < 0
         THEN [ok |-> FALSE, err |-> "RadioError", rec |-> r]
         ELSE [ok |-> TRUE, err |-> "",
               rec |-> [r EXCEPT ![at + 1] = IndexOf(DTCS, t.val) + 51,
                                 ![FLAGS_AT + 1] =
                                     SetBit(r[FLAGS_AT + 1], mask, inversion(t.pol))]]
    ELSE [ok |-> FALSE, err |-> "InvalidDataError", rec |-> r]

-----------------------------------------------------------------------------
(* get_memory and set_memory                                               *)

\* mutant of get_duplex: an offset of exactly 71 MHz already counts as split
get_duplex_at_limit(freq, off, plus, minus) ==
    IF off = 0 THEN [duplex |-> "", offset |-> 0]
    ELSE IF off >= SPLIT_LIMIT
    THEN [duplex |-> "split",
          offset |-> IF plus = 1 THEN freq + off
                     ELSE IF minus = 1 THEN freq - off ELSE off]
    ELSE [duplex |-> IF plus = 1 THEN "+" ELSE IF minus = 1 THEN "-" ELSE "",
          offset |-> off]

\* BFT1.get_memory, "must work out the polarity": duplex and exposed offset
\* from the stored offset (in Hz) and the two direction flags
get_duplex(freq, off, plus, minus) ==
    IF off = 0 THEN [duplex |-> "", offset |-> off]
    ELSE LET d1 == IF minus = 1 THEN "-" ELSE ""
             d2 == IF plus = 1 THEN "+" ELSE d1
             o1 == IF minus = 1 THEN freq - off ELSE off
             o2 == IF plus = 1 THEN freq + o1 ELSE o1
         IN  IF off > SPLIT_LIMIT
             THEN [duplex |-> "split", offset |-> o2]
             ELSE [duplex |-> d2, offset |-> off]

\* mutant of is_empty: a record is empty when all its bytes are 0xFF
is_empty_all(r) == \A j \in 1..Len(r) : r[j] = 255

\* BFT1.get_memory: _mem.get_raw(asbytes=False)[0] == "\xFF"
is_empty(r) == r[1] = 255

\* BFT1.get_memory on image m
get_memory(m, number) ==
    LET r == Slice(m, get_special(number), CHANNEL_SIZE)
        num == IF number.str # "" THEN SPECIALS(number.str) ELSE number.num
        flags == r[FLAGS_AT + 1]
        freq == LbcdInt(SubSeq(r, 1, 4)) * 10
        off == LbcdInt(SubSeq(r, TXOFFSET_AT + 1, TXOFFSET_AT + 4)) * 10
        dup == get_duplex(freq, off, GetBit(flags, OFFPLUS), GetBit(flags, OFFMINUS))
        tx == decode_tone(r[TXTONE_AT + 1], GetBit(flags, TTONDINV))
        rx == decode_tone(r[RXTONE_AT + 1], GetBit(flags, RTONDINV))
    IN  IF is_empty(r)
        THEN [kind |-> "mem", empty |-> TRUE, number |-> num,
              extd_number |-> number.str]
        ELSE IF ~tx.ok \/ ~rx.ok
        THEN [kind |-> "raise", error |-> "IndexError"]
        ELSE [kind |-> "mem", empty |-> FALSE, number |-> num,
              extd_number |-> number.str,
              freq |-> freq, offset |-> dup.offset, duplex |-> dup.duplex,
              mode |-> MODES[GetBit(flags, WIDE) + 1],
              skip |-> SKIP_VALUES[GetBit(flags, NOSKIP) + 1],
              tx |-> tx.tone, rx |-> rx.tone]

\* mutant of WithDirection: a flag is set and never cleared
WithDirection_sticky(r, plus, minus) ==
    [r EXCEPT ![FLAGS_AT + 1] =
        SetBit(SetBit(r[FLAGS_AT + 1], OFFPLUS, IF plus = 1 THEN 1 ELSE GetBit(r[FLAGS_AT + 1], OFFPLUS)),
               OFFMINUS, IF minus = 1 THEN 1 ELSE GetBit(r[FLAGS_AT + 1], OFFMINUS))]

\* the flag byte of r with the two direction flags set
WithDirection(r, plus, minus) ==
    [r EXCEPT ![FLAGS_AT + 1] =
        SetBit(SetBit(r[FLAGS_AT + 1], OFFPLUS, plus), OFFMINUS, minus)]

\* mutant of set_duplex: the flags of "+" and "-" are exchanged
set_duplex_swapped(r, mem) ==
    IF mem.duplex = "" THEN WithDirection(r, 0, 0)
    ELSE IF mem.duplex = "+" THEN WithDirection(r, 0, 1)
    ELSE IF mem.duplex = "-" THEN WithDirection(r, 1, 0)
    ELSE IF mem.duplex = "split"
    THEN IF mem.freq > mem.offset
         THEN PutSlice(WithDirection(r, 0, 1), TXOFFSET_AT,
                       IntToLbcd((mem.freq - mem.offset) \div 10, 4))
         ELSE PutSlice(WithDirection(r, 1, 0), TXOFFSET_AT,
                       IntToLbcd((mem.offset - mem.freq) \div 10, 4))
    ELSE r

\* BFT1.set_memory, "must work out the polarity", on record r
set_duplex(r, mem) ==
    IF mem.duplex = "" THEN WithDirection(r, 0, 0)
    ELSE IF mem.duplex = "+" THEN WithDirection(r, 1, 0)
    ELSE IF mem.duplex = "-" THEN WithDirection(r, 0, 1)
    ELSE IF mem.duplex = "split"
    THEN IF mem.freq > mem.offset
         THEN PutSlice(WithDirection(r, 0, 1), TXOFFSET_AT,
                       IntToLbcd((mem.freq - mem.offset) \div 10, 4))
         ELSE PutSlice(WithDirection(r, 1, 0), TXOFFSET_AT,
                       IntToLbcd((mem.offset - mem.freq) \div 10, 4))
    ELSE r

\* BFT1.set_memory on image m: the image it leaves and whether it raised.
\* The fields are written in the order of the code, so a tone that raises
\* leaves the writes made before it.
set_memory(m, mem) ==
    LET base == get_special(NumSel(mem.number))
        r0 == Slice(m, base, CHANNEL_SIZE)
        r1 == PutSlice(r0, 0, IntToLbcd(mem.freq \div 10, 4))
        r2 == PutSlice(r1, TXOFFSET_AT, IntToLbcd(mem.offset \div 10, 4))
        r3 == set_duplex(r2, mem)
        r4 == [r3 EXCEPT ![FLAGS_AT + 1] =
                  SetBit(r3[FLAGS_AT + 1], WIDE, IndexOf(MODES, mem.mode))]
        r5 == [r4 EXCEPT ![FLAGS_AT + 1] =
                  SetBit(r4[FLAGS_AT + 1], NOSKIP, IndexOf(SKIP_VALUES, mem.skip))]
        t1 == encode_tone(r5, TXTONE_AT, TTONDINV, mem.tx)
        t2 == encode_tone(t1.rec, RXTONE_AT, RTONDINV, mem.rx)
    IN  IF mem.empty
        THEN [ok |-> TRUE, err |-> "",
              mmap |-> PutSlice(m, base, [j \in 1..CHANNEL_SIZE |-> 255])]
        ELSE IF ~t1.ok
        THEN [ok |-> FALSE, err |-> t1.err, mmap |-> PutSlice(m, base, t1.rec)]
        ELSE [ok |-> t2.ok, err |-> t2.err, mmap |-> PutSlice(m, base, t2.rec)]

-----------------------------------------------------------------------------
(* Inputs of the codec                                                     *)

\* raw channel records an image may hold: every stored offset with every
\* combination of the two direction flags, with assorted tones and flags
StoredOffsets == <<0, 60000, 7100000, 7100001, 29000000>>

RawTxCodes == <<0, 1, 50, 51, 155>>

RawRxCodes == <<0, 9, 51, 155, 200>>

RawRecord(n) ==
    IntToLbcd(IF n % 2 = 0 THEN 14500000 ELSE 44600625, 4)
    \o <<RawRxCodes[((n \div 2) % 5) + 1]>>
    \o IntToLbcd(StoredOffsets[((n \div 4) % 5) + 1], 4)
    \o <<RawTxCodes[(n % 5) + 1]>>
    \o <<((n * 37) % 64) * 4 + (n % 4)>>
    \o [j \in 1..5 |-> (n + j) % 256]

\* slot 0 is emg, slots 1..20 the channels, slot 21 rly; channel 2 holds a
\* record whose first byte alone marks it empty
SlotRecord(slot, i) ==
    IF slot = 2
    THEN <<255>> \o Tail(RawRecord(4 * i + 2))
    ELSE RawRecord(4 * i + (IF slot = 20 THEN 2 ELSE IF slot = 21 THEN 3 ELSE slot % 4))

CodecImage(i) ==
    [k \in 1..MEM_SIZE |->
        IF k <= CHANNELS_BASE + 20 * CHANNEL_SIZE
        THEN SlotRecord((k - 1) \div CHANNEL_SIZE, i)[((k - 1) % CHANNEL_SIZE) + 1]
        ELSE IF k > RLY_BASE /\ k <= RLY_BASE + CHANNEL_SIZE
        THEN SlotRecord(21, i)[k - RLY_BASE]
        ELSE Image(i % NumImages)[k]]

CodecImages == {CodecImage(i) : i \in 0..(NumCodecImages - 1)}

\* selectors get_memory is called with, numbers set_memory is called with
Selectors ==
    {StrSel("EMG"), StrSel("RLY"), NumSel(-2), NumSel(-1), NumSel(1), NumSel(2),
     NumSel(20)}

Numbers == {-2, -1, 1, 20}

Freqs == {145000000, 446006250}

Offsets == {0, 600000, 71000000, 216000000, 435000000}

Duplexes == {"", "+", "-", "split"}

\* (tx, rx) tones: from the tables, absent from them, and of an invalid mode
TonePairs ==
    { <<NoTone, NoTone>>,
      <<Tone(885), NoTone>>,
      <<Tone(2541), Tone(670)>>,
      <<Dtcs(23, "N"), Dtcs(645, "R")>>,
      <<Dtcs(754, "R"), Tone(1000)>>,
      <<Tone(999), NoTone>>,
      <<Dtcs(23, "R"), Dtcs(24, "N")>>,
      <<[mode |-> "Cross", val |-> 0, pol |-> ""], NoTone>> }

-----------------------------------------------------------------------------
(* The codec as a state machine: one set_memory, then get_memory           *)

InitCodec ==
    /\ pc = "ready"
    /\ InitSessionVars
    /\ InitCodecVars
    /\ mmap \in CodecImages
    /\ vhf_range = decode_ranges(Vhfl(mmap), Vhfh(mmap))
    /\ uhf_range = decode_ranges(Uhfl(mmap), Uhfh(mmap))

\* radio.get_memory(number) on the bound image
GetMemory ==
    /\ pc = "ready"
    /\ \E number \in Selectors :
         /\ call' = [name |-> "get_memory", number |-> number]
         /\ result' = get_memory(mmap, number)
    /\ pc' = "got"
    /\ UNCHANGED <<sessionVars, mmap, vhf_range, uhf_range, prev, setarg, bw_shift>>

\* radio.set_memory(mem) with a non-empty mem
SetMemory ==
    /\ pc = "ready"
    /\ \E n \in Numbers, f \in Freqs, o \in Offsets, d \in Duplexes,
          md \in {"NFM", "FM"}, sk \in {"S", ""}, tp \in TonePairs :
         LET mem == [kind |-> "mem", empty |-> FALSE, number |-> n, freq |-> f,
                     offset |-> o, duplex |-> d, mode |-> md, skip |-> sk,
                     tx |-> tp[1], rx |-> tp[2]]
             out == set_memory(mmap, mem)
         IN  /\ setarg' = mem
             /\ call' = [name |-> "set_memory", number |-> NumSel(n)]
             /\ prev' = mmap
             /\ mmap' = out.mmap
             /\ result' = IF out.ok THEN [kind |-> "ok"]
                          ELSE [kind |-> "raise", error |-> out.err]
    /\ pc' = "set"
    /\ UNCHANGED <<sessionVars, vhf_range, uhf_range, bw_shift>>

\* radio.set_memory(mem) with mem.empty set (the other fields are the
\* defaults of chirp_common.Memory and are not read)
EraseMemory ==
    /\ pc = "ready"
    /\ \E n \in Numbers :
         LET mem == [kind |-> "mem", empty |-> TRUE, number |-> n, freq |-> 0,
                     offset |-> 600000, duplex |-> "", mode |-> "FM", skip |-> "",
                     tx |-> NoTone, rx |-> NoTone]
             out == set_memory(mmap, mem)
         IN  /\ setarg' = mem
             /\ call' = [name |-> "set_memory", number |-> NumSel(n)]
             /\ prev' = mmap
             /\ mmap' = out.mmap
             /\ result' = [kind |-> "ok"]
    /\ pc' = "set"
    /\ UNCHANGED <<sessionVars, vhf_range, uhf_range, bw_shift>>

\* radio.get_memory of the channel just written, by number or by name
ReadBack ==
    /\ pc = "set"
    /\ \E number \in Selectors :
         /\ get_special(number) = get_special(call.number)
         /\ call' = [name |-> "get_memory", number |-> number]
         /\ result' = get_memory(mmap, number)
    /\ pc' = "readback"
    /\ UNCHANGED <<sessionVars, mmap, vhf_range, uhf_range, prev, setarg, bw_shift>>

\* radio.set_memory(mem) once more with the empty mem just set
EraseAgain ==
    /\ pc = "set"
    /\ setarg.empty
    /\ prev' = mmap
    /\ mmap' = set_memory(mmap, setarg).mmap
    /\ pc' = "set2"
    /\ UNCHANGED <<sessionVars, vhf_range, uhf_range, setarg, call, result, bw_shift>>

NextCodec ==
    \/ GetMemory
    \/ SetMemory
    \/ EraseMemory
    \/ ReadBack
    \/ EraseAgain

SpecCodec == InitCodec /\ [][NextCodec]_vars

-----------------------------------------------------------------------------
(* Readers of the codec's state                                            *)

\* the tone is one set_memory accepts: off, or a value of its table
InTables(t) ==
    \/ t.mode = ""
    \/ t.mode = "Tone" /\ IndexOf(TONES, t.val) >= 0
    \/ t.mode = "DTCS" /\ IndexOf(DTCS, t.val) >= 0 /\ t.pol \in {"N", "R"}

\* get_memory has just read back a channel that was set with tones from
\* the tables
ReadBackOfSet ==
    /\ pc = "readback"
    /\ ~setarg.empty
    /\ InTables(setarg.tx)
    /\ InTables(setarg.rx)

\* what get_memory returned is what set_memory was given
SameAsSet ==
    /\ result.kind = "mem"
    /\ ~result.empty
    /\ result.freq = setarg.freq
    /\ result.duplex = setarg.duplex
    /\ result.offset = setarg.offset
    /\ result.mode = setarg.mode
    /\ result.skip = setarg.skip
    /\ result.tx = setarg.tx
    /\ result.rx = setarg.rx

Distance(a, b) == IF a > b THEN a - b ELSE b - a

\* the channel's duplex and offset are in the form get_memory reports
NormalDuplex(mem) ==
    \/ mem.duplex = "" /\ mem.offset <= SPLIT_LIMIT
    \/ mem.duplex \in {"+", "-"} /\ mem.offset > 0 /\ mem.offset <= SPLIT_LIMIT
    \/ mem.duplex = "split" /\ Distance(mem.freq, mem.offset) > SPLIT_LIMIT

\* get_memory has just returned a non-empty channel
GotChannel ==
    /\ pc \in {"got", "readback"}
    /\ result.kind = "mem"
    /\ ~result.empty

\* the record get_memory has just read, its stored offset in Hz and its flags
ReadRecord == Slice(mmap, get_special(call.number), CHANNEL_SIZE)

StoredOffset == LbcdInt(SubSeq(ReadRecord, TXOFFSET_AT + 1, TXOFFSET_AT + 4)) * 10

PlusFlag == GetBit(ReadRecord[FLAGS_AT + 1], OFFPLUS) = 1

MinusFlag == GetBit(ReadRecord[FLAGS_AT + 1], OFFMINUS) = 1

-----------------------------------------------------------------------------
(* Claims about the channel codec                                          *)

\* C8: (as stated) for every channel value with tones from the tables and
\* every selector, get_memory after set_memory returns the frequency, duplex,
\* offset, mode, skip and tones that were set.
C8_RoundTripAny == ReadBackOfSet => SameAsSet

\* C8: (amended) get_memory after set_memory returns the frequency, duplex,
\* offset, mode, skip and tones that were set when the tones are from the
\* tables and the duplex is in the form get_memory reports: "" with an
\* offset of at most 71 MHz, "+" or "-" with a non-zero offset of at most
\* 71 MHz, or "split" with rx and tx more than 71 MHz apart.
C8_RoundTrip == (ReadBackOfSet /\ NormalDuplex(setarg)) => SameAsSet

\* a split channel with digital codes was set and read back unchanged
C8_Witness ==
    /\ ReadBackOfSet
    /\ setarg.duplex = "split"
    /\ setarg.tx.mode = "DTCS"
    /\ NormalDuplex(setarg)
    /\ SameAsSet
    /\ call.number.str = "RLY"

\* C9: when set_memory raises (a tone or code absent from its table, or an
\* invalid tone mode), the image is byte for byte what it was before the call.
C9_FailedSetLeavesImage ==
    (pc = "set" /\ result.kind = "raise") => mmap = prev

\* C10: for a non-empty record get_memory derives duplex from the stored
\* offset and the direction flags: stored 0 gives ""; a non-zero stored
\* offset of at most 71 MHz gives "+" with the plus flag and "-" with the
\* minus flag alone, the offset being the stored one; a stored offset above
\* 71 MHz gives "split", the offset being rx - stored with the minus flag
\* alone and rx + stored with the plus flag alone.
C10_DuplexDerivation ==
    GotChannel =>
        /\ StoredOffset = 0 => result.duplex = ""
        /\ (StoredOffset # 0 /\ StoredOffset <= SPLIT_LIMIT) =>
              /\ PlusFlag => result.duplex = "+"
              /\ (MinusFlag /\ ~PlusFlag) => result.duplex = "-"
              /\ result.offset = StoredOffset
        /\ StoredOffset > SPLIT_LIMIT =>
              /\ result.duplex = "split"
              /\ (MinusFlag /\ ~PlusFlag) =>
                    result.offset = result.freq - StoredOffset
              /\ (PlusFlag /\ ~MinusFlag) =>
                    result.offset = result.freq + StoredOffset

\* a record of the image with the minus flag and a stored offset above
\* 71 MHz was read as split
C10_Witness ==
    /\ pc = "got"
    /\ GotChannel
    /\ StoredOffset > SPLIT_LIMIT
    /\ MinusFlag
    /\ ~PlusFlag
    /\ result.duplex = "split"
    /\ result.offset = result.freq - StoredOffset

-----------------------------------------------------------------------------
(* The settings record at 0x150 (MEM_FORMAT struct settings)               *)

NumSettingsImages == 8

\* offset of a field in the settings record
FieldAt(name) ==
    CASE name = "vhfl" -> 0
      [] name = "vhfh" -> 2
      [] name = "uhfl" -> 4
      [] name = "uhfh" -> 6
      [] name = "squelch" -> 18
      [] name = "vox" -> 19
      [] name = "timeout" -> 20
      [] name \in {"batsave", "fm_funct", "ste", "blo", "beep", "lock", "backlight"} -> 21
      [] name = "scantype" -> 22
      [] name = "channel" -> 23
      [] name = "fmrange" -> 24
      [] name = "alarm" -> 25
      [] name = "voice" -> 26
      [] name = "volume" -> 27
      [] name = "fm_vfo" -> 28
      [] name = "relaym" -> 30
      [] name = "tx_pwr" -> 31

\* lowest bit of a field in its byte and the number of values it takes
FieldUnit(name) ==
    CASE name = "batsave" -> 128
      [] name = "fm_funct" -> 64
      [] name = "ste" -> 32
      [] name = "blo" -> 16
      [] name = "beep" -> 8
      [] name = "lock" -> 4
      [] OTHER -> 1

FieldSpan(name) ==
    CASE name \in {"batsave", "fm_funct", "ste", "blo", "beep", "lock"} -> 2
      [] name = "backlight" -> 4
      [] OTHER -> 256

ByteFields ==
    {"squelch", "vox", "timeout", "batsave", "fm_funct", "ste", "blo", "beep",
     "lock", "backlight", "scantype", "channel", "fmrange", "alarm", "voice",
     "volume", "relaym", "tx_pwr"}

LimitFields == {"vhfl", "vhfh", "uhfl", "uhfh"}

\* _settings.<name> for a field of one byte or of some bits of a byte
GetField(m, name) ==
    (m[SETTINGS_BASE + FieldAt(name) + 1] \div FieldUnit(name)) % FieldSpan(name)

\* setattr(_settings, name, value) for such a field
SetField(m, name, value) ==
    LET k == SETTINGS_BASE + FieldAt(name) + 1
        old == GetField(m, name)
    IN  [m EXCEPT ![k] = m[k] - old * FieldUnit(name) + value * FieldUnit(name)]

\* u16: two bytes, most significant first
U16(m, a) == m[a + 1] * 256 + m[a + 2]

PutU16(m, a, v) == PutSlice(m, a, <<v \div 256, v % 256>>)

\* int(_settings.vhfl) and the like
GetLimit(m, name) == LbcdInt(Slice(m, SETTINGS_BASE + FieldAt(name), 2))

FM_VFO_AT == SETTINGS_BASE + 28

\* mutant of Swap16: the two bytes are left in place
Swap16_none(value) == value

\* ((value & 0x00FF) << 8) | ((value & 0xFF00) >> 8)
Swap16(value) == (value % 256) * 256 + ((value \div 256) % 256)

\* 108.0 * 10 - 650
FM_MAX == 430

\* 65 MHz in tenths of MHz; FM frequencies are held in tenths of MHz
FM_BASE == 650

VOLUME_MAX == 7

-----------------------------------------------------------------------------
(* get_settings and set_settings                                           *)

\* mutant of present_volume: the stored byte is presented as it is
present_volume_raw(volume) == volume

\* BFT1.get_settings, "volume validation"
present_volume(volume) == IF volume > VOLUME_MAX THEN VOLUME_MAX ELSE volume

\* mutant of fm_vfo_decode: the direct interpretation is tried first
fm_vfo_decode_direct_first(value) ==
    IF value <= FM_MAX
    THEN [present |-> TRUE, path |-> "direct", freq |-> value + FM_BASE]
    ELSE IF Swap16(value) <= FM_MAX
    THEN [present |-> TRUE, path |-> "swapped", freq |-> Swap16(value) + FM_BASE]
    ELSE [present |-> FALSE, path |-> "none", freq |-> 0]

\* BFT1.get_settings, "broadcast FM setting": the path taken and the
\* frequency presented (in tenths of MHz) for the stored 16-bit value
fm_vfo_decode(value) ==
    LET value_shifted == Swap16(value)
    IN  IF value_shifted <= FM_MAX
        THEN [present |-> TRUE, path |-> "swapped", freq |-> value_shifted + FM_BASE]
        ELSE IF value <= FM_MAX
        THEN [present |-> TRUE, path |-> "direct", freq |-> value + FM_BASE]
        ELSE [present |-> FALSE, path |-> "none", freq |-> 0]

\* mutant of present_limit: the stored value is presented as it is
present_limit_raw(stored) == stored

\* RadioSettingValueInteger(lo, hi, int(_settings.vhfl) / 10)
present_limit(stored) == stored \div 10

\* BFT1.get_settings on image m with radio._bw_shift = bw: the group it
\* returns and the value it leaves in radio._bw_shift
get_settings(m, bw) ==
    LET fm == fm_vfo_decode(U16(m, FM_VFO_AT))
    IN  [bw_shift |-> bw \/ fm.path = "swapped",
         ui |-> [kind |-> "settings",
                 tx_pwr |-> GetField(m, "tx_pwr"),
                 channel |-> GetField(m, "channel"),
                 squelch |-> GetField(m, "squelch"),
                 vox |-> GetField(m, "vox"),
                 volume |-> present_volume(GetField(m, "volume")),
                 scantype |-> GetField(m, "scantype"),
                 timeout |-> GetField(m, "timeout"),
                 voice |-> GetField(m, "voice"),
                 alarm |-> GetField(m, "alarm"),
                 backlight |-> GetField(m, "backlight"),
                 blo |-> GetField(m, "blo"),
                 ste |-> GetField(m, "ste"),
                 batsave |-> GetField(m, "batsave"),
                 lock |-> GetField(m, "lock"),
                 beep |-> GetField(m, "beep"),
                 fm_funct |-> GetField(m, "fm_funct"),
                 fmrange |-> GetField(m, "fmrange"),
                 fm_vfo |-> fm,
                 vhfl |-> present_limit(GetLimit(m, "vhfl")),
                 vhfh |-> present_limit(GetLimit(m, "vhfh")),
                 uhfl |-> present_limit(GetLimit(m, "uhfl")),
                 uhfh |-> present_limit(GetLimit(m, "uhfh")),
                 relaym |-> GetField(m, "relaym")]]

\* apply_fm_freq: freq is the setting's value in tenths of MHz
apply_fm_freq(m, bw, freq) ==
    LET value == freq - FM_BASE
    IN  PutU16(m, FM_VFO_AT, IF bw THEN Swap16(value) ELSE value)

\* apply_limit: value is the setting's value in MHz
apply_limit(m, name, value) ==
    PutSlice(m, SETTINGS_BASE + FieldAt(name), IntToLbcd(value * 10, 2))

\* BFT1.set_settings, body of the loop for one changed element
set_element(m, bw, element) ==
    IF element.name = "fm_vfo" THEN apply_fm_freq(m, bw, element.value)
    ELSE IF element.name \in LimitFields
    THEN apply_limit(m, element.name, element.value)
    ELSE SetField(m, element.name, element.value)

\* BFT1.set_settings over the changed elements of uisettings, in order
RECURSIVE set_settings(_, _, _)
set_settings(m, bw, uisettings) ==
    IF uisettings = <<>> THEN m
    ELSE set_settings(set_element(m, bw, Head(uisettings)), bw, Tail(uisettings))

-----------------------------------------------------------------------------
(* Inputs of the settings                                                  *)

\* stored limits (vhfl, vhfh, uhfl, uhfh), in tenths of MHz
StoredLimits ==
    << <<1360, 1740, 4000, 5200>>,
       <<1300, 1740, 4000, 4700>>,
       <<1365, 1740, 4005, 5200>> >>

\* stored fm_vfo values: 0x0145, 0x4501, 0xFFFF, 0x0001, 0xAE01, 0x01AF,
\* 0xAF01, 0x0000
StoredFmVfo == <<325, 17665, 65535, 1, 44545, 431, 44801, 0>>

StoredVolumes == <<255, 3, 0, 7, 5>>

SettingsRecord(i) ==
    LET lim == StoredLimits[(i % 3) + 1]
    IN  IntToLbcd(lim[1], 2) \o IntToLbcd(lim[2], 2)
        \o IntToLbcd(lim[3], 2) \o IntToLbcd(lim[4], 2)
        \o [j \in 1..10 |-> (i + j) % 256]
        \o << i % 10, (i * 3) % 10, i % 7, ((i * 5) % 64) * 4 + (i % 3),
              i % 3, 1 + (i % 20), i % 2, i % 17, i % 3,
              StoredVolumes[(i % 5) + 1] >>
        \o << StoredFmVfo[(i % 8) + 1] \div 256, StoredFmVfo[(i % 8) + 1] % 256 >>
        \o << i % 3, i % 2 >>

SettingsImage(i) == PutSlice(CodecImage(i), SETTINGS_BASE, SettingsRecord(i))

SettingsImages == {SettingsImage(i) : i \in 0..(NumSettingsImages - 1)}

\* elements a caller changes: FM stations in tenths of MHz, volumes,
\* limits in MHz, a squelch level
Changes ==
    { [name |-> "fm_vfo", value |-> 650],
      [name |-> "fm_vfo", value |-> 651],
      [name |-> "fm_vfo", value |-> 975],
      [name |-> "fm_vfo", value |-> 1080],
      [name |-> "volume", value |-> 0],
      [name |-> "volume", value |-> 7],
      [name |-> "vhfl", value |-> 136],
      [name |-> "uhfh", value |-> 470],
      [name |-> "squelch", value |-> 5] }

\* uisettings: the changed elements of the group, in its order
UiSettings ==
    {<<e>> : e \in Changes}
    \cup { << [name |-> "volume", value |-> 0], [name |-> "fm_vfo", value |-> 975] >>,
           << [name |-> "fm_vfo", value |-> 651], [name |-> "vhfl", value |-> 136] >> }

\* the element is in the group ui and its value differs from the one shown
Changed(ui, e) ==
    IF e.name = "fm_vfo"
    THEN ui.fm_vfo.present /\ ui.fm_vfo.freq # e.value
    ELSE ui[e.name] # e.value

-----------------------------------------------------------------------------
(* The settings as a state machine                                         *)

InitSettings ==
    /\ pc = "ready"
    /\ InitSessionVars
    /\ InitCodecVars
    /\ mmap \in SettingsImages
    /\ vhf_range = decode_ranges(Vhfl(mmap), Vhfh(mmap))
    /\ uhf_range = decode_ranges(Uhfl(mmap), Uhfh(mmap))

\* another image is bound to the radio object: the end of sync_in, with the
\* image a completed download returned
ProcessMmap ==
    /\ pc \in {"ready", "settings", "written", "reread"}
    /\ \E image \in SettingsImages :
         /\ mmap' = image
         /\ vhf_range' = decode_ranges(Vhfl(image), Vhfh(image))
         /\ uhf_range' = decode_ranges(Uhfl(image), Uhfh(image))
    /\ pc' = "ready"
    /\ call' = [name |-> "process_mmap"]
    /\ result' = [kind |-> "none"]
    /\ setarg' = [kind |-> "none"]
    /\ prev' = <<>>
    /\ UNCHANGED <<sessionVars, bw_shift>>

\* radio.get_settings()
GetSettings ==
    /\ pc \in {"ready", "settings", "written", "reread"}
    /\ LET out == get_settings(mmap, bw_shift)
       IN  /\ result' = out.ui
           /\ bw_shift' = out.bw_shift
    /\ pc' = IF pc = "written" THEN "reread" ELSE "settings"
    /\ call' = [name |-> "get_settings"]
    /\ setarg' = IF pc = "written" THEN setarg ELSE [kind |-> "none"]
    /\ prev' = IF pc = "written" THEN prev ELSE <<>>
    /\ UNCHANGED <<sessionVars, mmap, vhf_range, uhf_range>>

\* radio.set_settings(uisettings) on the group the last get_settings returned
SetSettings ==
    /\ pc \in {"settings", "reread"}
    /\ \E uisettings \in UiSettings :
         /\ \A j \in 1..Len(uisettings) : Changed(result, uisettings[j])
         /\ setarg' = [kind |-> "uisettings", elements |-> uisettings]
         /\ mmap' = set_settings(mmap, bw_shift, uisettings)
    /\ prev' = mmap
    /\ pc' = "written"
    /\ call' = [name |-> "set_settings"]
    /\ UNCHANGED <<sessionVars, vhf_range, uhf_range, result, bw_shift>>

NextSettings ==
    \/ ProcessMmap
    \/ GetSettings
    \/ SetSettings

SpecSettings == InitSettings /\ [][NextSettings]_vars

-----------------------------------------------------------------------------
(* Readers of the settings' state                                          *)

\* the last set_settings call changed the FM station
FmWritten ==
    /\ setarg.kind = "uisettings"
    /\ \E j \in 1..Len(setarg.elements) : setarg.elements[j].name = "fm_vfo"

\* the FM station it was given, in tenths of MHz
FmValue ==
    LET j == CHOOSE j \in 1..Len(setarg.elements) : setarg.elements[j].name = "fm_vfo"
    IN  setarg.elements[j].value

\* the stored fm_vfo bytes hold FmValue in the encoding of the given path
FmStoredAs(path) ==
    LET v == FmValue - FM_BASE
    IN  IF path = "swapped"
        THEN mmap[FM_VFO_AT + 1] = v % 256 /\ mmap[FM_VFO_AT + 2] = v \div 256
        ELSE mmap[FM_VFO_AT + 1] = v \div 256 /\ mmap[FM_VFO_AT + 2] = v % 256

-----------------------------------------------------------------------------
(* Claims about the settings                                               *)

\* C11: an FM station f of 65.0 to 108.0 MHz written through the settings is
\* stored as 10f - 650 in the encoding the last settings read detected
\* (byte-swapped or direct), and the next settings read presents f.
C11_FmWriteRead ==
    /\ (pc = "written" /\ FmWritten) => FmStoredAs(result.fm_vfo.path)
    /\ (pc = "reread" /\ FmWritten) =>
          (result.fm_vfo.present /\ result.fm_vfo.freq = FmValue)

\* get_settings has just returned a group
SettingsRead == pc \in {"settings", "reread"} /\ result.kind = "settings"

\* the stored fm_vfo as a 16-bit value, and with its two bytes exchanged
FmRaw == mmap[FM_VFO_AT + 1] * 256 + mmap[FM_VFO_AT + 2]

FmRawSwapped == mmap[FM_VFO_AT + 2] * 256 + mmap[FM_VFO_AT + 1]

\* C12: (as stated) the FM VFO raw value 0x0145 is decoded via the
\* byte-swapped path to 97.5 MHz.
C12_Raw0145Swapped ==
    (SettingsRead /\ FmRaw = 325) =>
        /\ result.fm_vfo.present
        /\ result.fm_vfo.path = "swapped"
        /\ result.fm_vfo.freq = 975

\* C12: (amended) the FM VFO raw value 0x0145 is decoded via the direct path
\* to 97.5 MHz, its byte-swapped form 0x4501 being out of range; the raw
\* value 0x4501 is the one decoded via the byte-swapped path to 97.5 MHz.
C12_Raw0145 ==
    /\ (SettingsRead /\ FmRaw = 325) =>
          /\ result.fm_vfo.present
          /\ result.fm_vfo.path = "direct"
          /\ result.fm_vfo.freq = 975
    /\ (SettingsRead /\ FmRaw = 17665) =>
          /\ result.fm_vfo.present
          /\ result.fm_vfo.path = "swapped"
          /\ result.fm_vfo.freq = 975

\* an image holding 0x0145 was read and 97.5 MHz presented
C12_Witness ==
    /\ pc = "settings"
    /\ result.kind = "settings"
    /\ FmRaw = 325
    /\ result.fm_vfo.path = "direct"
    /\ result.fm_vfo.freq = 975

\* C13: a settings read tries the byte-swapped interpretation of the stored
\* fm_vfo first: if swap(raw) <= 430 it presents 65 + swap(raw)/10 MHz and
\* byte-swapped mode is remembered; otherwise if raw <= 430 it presents
\* 65 + raw/10 MHz; otherwise the FM VFO is left out of the group and
\* nothing is raised.
C13_FmDetection ==
    SettingsRead =>
        /\ FmRawSwapped <= FM_MAX =>
              /\ result.fm_vfo.present
              /\ result.fm_vfo.path = "swapped"
              /\ result.fm_vfo.freq = FM_BASE + FmRawSwapped
              /\ bw_shift
        /\ (FmRawSwapped > FM_MAX /\ FmRaw <= FM_MAX) =>
              /\ result.fm_vfo.present
              /\ result.fm_vfo.path = "direct"
              /\ result.fm_vfo.freq = FM_BASE + FmRaw
        /\ (FmRawSwapped > FM_MAX /\ FmRaw > FM_MAX) => ~result.fm_vfo.present

\* a value one above the limit in the direct form was read and left out
C13_Witness ==
    /\ SettingsRead
    /\ FmRaw = FM_MAX + 1
    /\ ~result.fm_vfo.present

-----------------------------------------------------------------------------
(* Further claims on the clone session (specification Spec)                *)

\* C14: a download that fails at any point produces no image: the image
\* held by the radio object and the ranges bound to it change in no step
\* but the one that ends a download after all 128 blocks were received and
\* validated, which binds the 2048 bytes received.
C14_NoPartialImage ==
    [][ (mmap' # mmap \/ vhf_range' # vhf_range \/ uhf_range' # uhf_range) =>
            /\ op = "download"
            /\ pc = "block"
            /\ pc' = "done"
            /\ addr = MEM_SIZE - BLOCK_SIZE
            /\ Len(data') = MEM_SIZE
            /\ mmap' = data'
            /\ err' = NoErr ]_vars

\* a download failed after some blocks were received, and the radio object
\* still holds an image that is not the device's
C14_Witness ==
    /\ pc = "fail"
    /\ op = "download"
    /\ Len(data) >= 2 * BLOCK_SIZE
    /\ Len(mmap) = MEM_SIZE
    /\ mmap # devmem
    /\ SubSeq(mmap, 1, Len(data)) # data

-----------------------------------------------------------------------------
(* Claims about tones and empty channels (specification SpecCodec)         *)

\* get_memory has just been called
GetCalled == pc \in {"got", "readback"}

\* the tone the claim gives for a stored code and inversion flag
TableTone(code, inv) ==
    IF code = 0 THEN NoTone
    ELSE IF code <= 50 THEN Tone(TONES[code])
    ELSE Dtcs(DTCS[code - 50], IF inv = 1 THEN "R" ELSE "N")

\* C15: for every stored tone byte and inversion flag, resolving the tone
\* gives a result and never fails: none for code 0, TONES[code-1] for codes
\* 1..50, DTCS[code-51] for every code >= 51, reversed when the flag is set.
C15_ToneResolution ==
    (GetCalled /\ ~is_empty(ReadRecord)) =>
        /\ result.kind = "mem"
        /\ result.tx = TableTone(ReadRecord[TXTONE_AT + 1],
                                 GetBit(ReadRecord[FLAGS_AT + 1], TTONDINV))
        /\ result.rx = TableTone(ReadRecord[RXTONE_AT + 1],
                                 GetBit(ReadRecord[FLAGS_AT + 1], RTONDINV))

\* set_memory has just been called with a non-empty mem; the record it wrote
SetCalled == pc = "set" /\ ~setarg.empty

WrittenRecord == Slice(mmap, get_special(call.number), CHANNEL_SIZE)

\* the byte and the inversion the claim gives for a tone of the tables
TableCode(t) ==
    IF t.mode = "" THEN 0
    ELSE IF t.mode = "Tone"
    THEN CHOOSE i \in 1..Len(TONES) : TONES[i] = t.val
    ELSE 50 + (CHOOSE i \in 1..Len(DTCS) : DTCS[i] = t.val)

TableInv(t) == IF t.mode = "DTCS" /\ t.pol = "R" THEN 1 ELSE 0

\* the record holds the tone t in the byte at offset at and the bit mask
StoredTone(at, mask, t) ==
    /\ WrittenRecord[at + 1] = TableCode(t)
    /\ GetBit(WrittenRecord[FLAGS_AT + 1], mask) = TableInv(t)

\* the error the claim gives for a tone that is not of the tables
TableError(t) ==
    IF t.mode \in {"Tone", "DTCS"} THEN "RadioError" ELSE "InvalidDataError"

\* C16: encoding a tone: mode "" stores byte 0 and inversion 0; an analog
\* tone of TONES stores its index + 1 and inversion 0; a digital code of DTCS
\* stores its index + 51 and inversion 1 exactly for polarity R; a tone or
\* code absent from its table raises RadioError; any other mode raises
\* InvalidDataError.  The tx tone is encoded before the rx tone.
C16_ToneEncoding ==
    SetCalled =>
        /\ InTables(setarg.tx) => StoredTone(TXTONE_AT, TTONDINV, setarg.tx)
        /\ ~InTables(setarg.tx) =>
              (result.kind = "raise" /\ result.error = TableError(setarg.tx))
        /\ (InTables(setarg.tx) /\ InTables(setarg.rx)) =>
              (result.kind = "ok" /\ StoredTone(RXTONE_AT, RTONDINV, setarg.rx))
        /\ (InTables(setarg.tx) /\ ~InTables(setarg.rx)) =>
              (result.kind = "raise" /\ result.error = TableError(setarg.rx))

\* a normal and a reversed digital code were stored
C16_Witness ==
    /\ SetCalled
    /\ result.kind = "ok"
    /\ setarg.tx = Dtcs(23, "N")
    /\ setarg.rx = Dtcs(645, "R")
    /\ WrittenRecord[TXTONE_AT + 1] = 51
    /\ WrittenRecord[RXTONE_AT + 1] = 144
    /\ GetBit(WrittenRecord[FLAGS_AT + 1], RTONDINV) = 1
    /\ GetBit(WrittenRecord[FLAGS_AT + 1], TTONDINV) = 0

\* C17: set_memory with an empty mem writes sixteen 0xFF bytes to the
\* record; get_memory of a record whose first byte is 0xFF returns empty
\* whatever its other bytes hold; so get_memory after set_memory(empty)
\* returns empty, and a second set_memory(empty) leaves the image as it is.
C17_EmptyChannel ==
    /\ (pc = "set" /\ setarg.empty) =>
          WrittenRecord = [j \in 1..CHANNEL_SIZE |-> 255]
    /\ (GetCalled /\ ReadRecord[1] = 255) =>
          (result.kind = "mem" /\ result.empty)
    /\ (pc = "readback" /\ setarg.empty) =>
          (result.kind = "mem" /\ result.empty)
    /\ pc = "set2" => mmap = prev

\* a record with first byte 0xFF and other bytes that are not was read as
\* empty
C17_Witness ==
    /\ pc = "got"
    /\ ReadRecord[1] = 255
    /\ \E j \in 2..CHANNEL_SIZE : ReadRecord[j] # 255
    /\ result.kind = "mem"
    /\ result.empty

-----------------------------------------------------------------------------
(* Further claims about the settings (specification SpecSettings)          *)

\* the last set_settings call changed the element of that name
Written(name) ==
    /\ setarg.kind = "uisettings"
    /\ \E j \in 1..Len(setarg.elements) : setarg.elements[j].name = name

\* the value it was given
WrittenValue(name) ==
    LET j == CHOOSE j \in 1..Len(setarg.elements) : setarg.elements[j].name = name
    IN  setarg.elements[j].value

\* the volume byte of an image
VolumeOf(m) == m[SETTINGS_BASE + FieldAt("volume") + 1]

\* C18: a settings read presents a stored volume of 0xFF as 7 and a stored
\* volume of 0..7 as itself; a volume the caller changes is stored as given,
\* and no settings write puts 0xFF in the volume byte.
C18_Volume ==
    /\ SettingsRead =>
          /\ VolumeOf(mmap) = 255 => result.volume = 7
          /\ VolumeOf(mmap) \in 0..7 => result.volume = VolumeOf(mmap)
    /\ (pc = "written" /\ Written("volume")) =>
          VolumeOf(mmap) = WrittenValue("volume")
    /\ (pc = "written" /\ VolumeOf(mmap) = 255) => VolumeOf(prev) = 255

\* a volume stored as 0xFF was changed to 0 and read back as 0
C18_Witness ==
    /\ pc = "reread"
    /\ Written("volume")
    /\ VolumeOf(prev) = 255
    /\ VolumeOf(mmap) = 0
    /\ result.volume = 0

\* the four BCD digits of the limit of that name in image m
LimitOf(m, name) ==
    LET lo == m[SETTINGS_BASE + FieldAt(name) + 1]
        hi == m[SETTINGS_BASE + FieldAt(name) + 2]
    IN  (hi \div 16) * 1000 + (hi % 16) * 100 + (lo \div 16) * 10 + (lo % 16)

\* C19: binding an image sets the VHF and the UHF range to (stored low
\* limit x 100000, stored high limit x 100000) Hz; the settings present each
\* limit as the stored value divided by 10, in whole MHz; writing a limit of
\* m MHz stores m x 10, and reading it back returns m.
C19_Limits ==
    /\ pc = "ready" =>
          /\ vhf_range = <<LimitOf(mmap, "vhfl") * 100000,
                           LimitOf(mmap, "vhfh") * 100000>>
          /\ uhf_range = <<LimitOf(mmap, "uhfl") * 100000,
                           LimitOf(mmap, "uhfh") * 100000>>
    /\ SettingsRead =>
          \A name \in LimitFields : result[name] = LimitOf(mmap, name) \div 10
    /\ \A name \in LimitFields :
          /\ (pc = "written" /\ Written(name)) =>
                LimitOf(mmap, name) = WrittenValue(name) * 10
          /\ (pc = "reread" /\ Written(name)) =>
                result[name] = WrittenValue(name)

\* a VHF low limit stored as 130.0 MHz was changed to 136 and read back
C19_Witness ==
    /\ pc = "reread"
    /\ Written("vhfl")
    /\ LimitOf(prev, "vhfl") = 1300
    /\ LimitOf(mmap, "vhfl") = 1360
    /\ result.vhfl = 136

\* C20: after any sequence of image bindings, settings reads and FM VFO
\* writes on one radio object, the mode remembered for writing is the one
\* the most recent settings read detected, and an FM VFO write stores the
\* value in that encoding: byte-swapped if that read took the byte-swapped
\* path, direct if it took the direct path.
C20_WriteUsesLastDetected ==
    /\ (SettingsRead /\ result.fm_vfo.present) =>
          (bw_shift <=> result.fm_vfo.path = "swapped")
    /\ (pc = "written" /\ Written("fm_vfo")) => FmStoredAs(result.fm_vfo.path)

-----------------------------------------------------------------------------
(* Claims on the end and the length of the session (specification Spec)    *)

\* positions of the transcript where the close byte 0x62 was written
CloseSent == {i \in 1..Len(wire) : wire[i] = Tx(<<98>>)}

\* the last three events are the frame of the last block, the reply that
\* validates (download) or acknowledges (upload) it, and the close byte
ClosedAfterLastBlock ==
    LET n == Len(wire) IN
    /\ n >= 3
    /\ wire[n] = Tx(<<98>>)
    /\ IF op = "download"
       THEN /\ wire[n - 2] = Tx(<<82, 7, 240, 16>>)
            /\ wire[n - 1].dir = "rx"
            /\ Len(wire[n - 1].bytes) = 20
            /\ SubSeq(wire[n - 1].bytes, 1, 4) = <<87, 7, 240, 16>>
       ELSE /\ IsWriteFrame(wire[n - 2])
            /\ FrameAddr(wire[n - 2]) = 368
            /\ wire[n - 1] = Rx(<<6>>)

\* C21: in a successful download or upload the close byte 0x62 is sent
\* exactly once and is the last thing written, after the last block was
\* validated (download) or acknowledged (upload); in a session that fails,
\* or has not ended, it has not been sent.
C21_CloseByte ==
    /\ pc = "done" => (Cardinality(CloseSent) = 1 /\ ClosedAfterLastBlock)
    /\ pc # "done" => CloseSent = {}

\* an upload ended with the close byte
C21_Witness ==
    /\ pc = "done"
    /\ op = "upload"
    /\ wire[Len(wire)] = Tx(<<98>>)
    /\ Len(WriteFrames) = 24

\* the session is in _clean_buffer, before one of its reads
Draining == pc \in {"clean1", "clean2"}

\* C24: the drain of the inbound buffer ends on every input stream. A read
\* after which it goes on has returned bytes and has left the total at 101
\* or less; it aborts with an error exactly when a read takes the total
\* above 101; otherwise it returns normally (at the read that returned no
\* bytes). The total grows with every read that does not end the drain, so
\* the drain makes 102 reads at most.
C24_Drain ==
    [][ Draining =>
          /\ datacount <= 101
          /\ pc' = pc => (datacount' > datacount /\ datacount' <= 101)
          /\ pc' = "fail" =>
                /\ datacount' > 101
                /\ datacount' - datacount <= 100
                /\ err' # NoErr
                /\ wire' = wire
          /\ pc' \notin {pc, "fail"} =>
                /\ pc' \in {"magic", "block", "wack"}
                /\ err' = NoErr
                /\ Len(wire') = Len(wire) + 1 ]_vars

\* the drain of _start_clone_mode aborted when the total reached 102
C24_Witness ==
    /\ pc = "fail"
    /\ datacount = 102
    /\ err # NoErr
    /\ MagicSent = 0

\* the addresses of the block frames written, in the order of the writes
BlockAddrs ==
    LET frames == SelectSeq(wire, IsBlockFrame)
    IN  [k \in 1..Len(frames) |-> FrameAddr(frames[k])]

\* the identification requests written
IdentSent == Cardinality({i \in 1..Len(wire) : wire[i] = Tx(<<2>>)})

\* block exchanges a complete session of this kind makes
TotalBlocks == IF op = "download" THEN 128 ELSE 24

\* at most 3 handshake attempts, one identification and 128 or 24 block
\* exchanges, each block once; an ended session is complete or has an error
SessionBounded ==
    /\ MagicSent <= 3
    /\ IdentSent <= 1
    /\ Len(BlockAddrs) <= TotalBlocks
    /\ \A k \in 1..(Len(BlockAddrs) - 1) : BlockAddrs[k] < BlockAddrs[k + 1]
    /\ pc = "done" => (err = NoErr /\ Len(BlockAddrs) = TotalBlocks)
    /\ pc = "fail" => err # NoErr

SessionEnded == pc \in {"done", "fail"}

\* C25: every download or upload session ends, complete or with an error,
\* whatever the device answers, when each read returns within the timeout;
\* it makes at most 3 handshake attempts, one identification exchange and
\* 128 (download) or 24 (upload) block exchanges, and requests or writes no
\* block twice.
C25_SessionTerminates == []SessionBounded /\ <>SessionEnded

\* a download that failed at its last block, after 128 block exchanges
C25_Witness ==
    /\ pc = "fail"
    /\ op = "download"
    /\ err # NoErr
    /\ Len(BlockAddrs) = 128
    /\ MagicSent = 1

\* a call of the progress callback made by _download or _upload (those of
\* the handshake report a total of 3)
IsTransferStep(e) == e[2] \in {128, 24}

TransferSteps == SelectSeq(progress, IsTransferStep)

\* the device's answer at position i + 1 validates (download) or
\* acknowledges (upload) the block frame at position i
BlockPassed(i) ==
    /\ IsBlockFrame(wire[i])
    /\ i + 1 <= Len(wire)
    /\ IF op = "download"
       THEN /\ Len(wire[i + 1].bytes) = 20
            /\ SubSeq(wire[i + 1].bytes, 1, 4)
                 = <<87, wire[i].bytes[2], wire[i].bytes[3], 16>>
       ELSE wire[i + 1] = Rx(<<6>>)

BlocksPassed == Cardinality({i \in 1..Len(wire) : BlockPassed(i)})

\* C26: during the block transfer the progress callback has been invoked at
\* least once for every block that was validated (download) or acknowledged
\* (upload), after the call that opens the transfer; the step never
\* decreases and never exceeds the total, which is 128 for a download and
\* 24 for an upload.
C26_Progress ==
    /\ BlocksPassed > 0 => Len(TransferSteps) - 1 >= BlocksPassed
    /\ \A k \in 1..Len(TransferSteps) :
          /\ TransferSteps[k][2] = TotalBlocks
          /\ TransferSteps[k][1] >= 0
          /\ TransferSteps[k][1] <= TransferSteps[k][2]
          /\ k > 1 => TransferSteps[k - 1][1] <= TransferSteps[k][1]

\* an upload stopped by a bad ACK after 23 acknowledged blocks and as many
\* progress calls, the last with step 22
C26_Witness ==
    /\ pc = "fail"
    /\ op = "upload"
    /\ BlocksPassed = 23
    /\ Len(TransferSteps) = 24
    /\ TransferSteps[24] = <<22, 24>>

-----------------------------------------------------------------------------
(* Editing an image: any sequence of set_memory and set_settings calls     *)

\* images an editing session starts from
NumEditImages == 2

\* a record as a radio or an earlier edit leaves it: a record that is not
\* empty and has both direction flags set has the minus flag cleared
ValidRecord(r) ==
    IF r[1] # 255 /\ (r[FLAGS_AT + 1] % 4) = 3
    THEN [r EXCEPT ![FLAGS_AT + 1] = r[FLAGS_AT + 1] - 1]
    ELSE r

EditImage(i) ==
    LET image == SettingsImage(i)
    IN  [k \in 1..MEM_SIZE |->
            IF k <= CHANNELS_BASE + 20 * CHANNEL_SIZE
            THEN ValidRecord(Slice(image, ((k - 1) \div CHANNEL_SIZE) * CHANNEL_SIZE,
                                   CHANNEL_SIZE))[((k - 1) % CHANNEL_SIZE) + 1]
            ELSE IF k > RLY_BASE /\ k <= RLY_BASE + CHANNEL_SIZE
            THEN ValidRecord(Slice(image, RLY_BASE, CHANNEL_SIZE))[k - RLY_BASE]
            ELSE image[k]]

EditImages == {EditImage(i) : i \in 0..(NumEditImages - 1)}

\* a non-empty mem of the edits
EditMem(n, duplex, offset, tx) ==
    [kind |-> "mem", empty |-> FALSE, number |-> n, freq |-> 145000000,
     offset |-> offset, duplex |-> duplex, mode |-> "FM", skip |-> "",
     tx |-> tx, rx |-> NoTone]

\* an empty mem (the other fields are the defaults of chirp_common.Memory)
EmptyMem(n) ==
    [kind |-> "mem", empty |-> TRUE, number |-> n, freq |-> 0,
     offset |-> 600000, duplex |-> "", mode |-> "FM", skip |-> "",
     tx |-> NoTone, rx |-> NoTone]

\* the edits: emergency and relay are erased and given an offset up or
\* down; channel 20 is also given no offset, the two kinds of split (with
\* 145 MHz, down and up) and a tone absent from the table
EditMems ==
    {EmptyMem(n) : n \in {-2, -1, 20}}
    \cup {EditMem(n, d, 600000, NoTone) : n \in {-2, -1, 20}, d \in {"+", "-"}}
    \cup { EditMem(20, "", 0, NoTone),
           EditMem(20, "split", 144400000, NoTone),
           EditMem(20, "split", 435000000, NoTone),
           EditMem(20, "-", 600000, Tone(999)) }

\* settings written during the edits
EditUiSettings ==
    { << [name |-> "volume", value |-> 0] >>,
      << [name |-> "fm_vfo", value |-> 975], [name |-> "vhfl", value |-> 136] >> }

InitEdit ==
    /\ pc = "edit"
    /\ InitSessionVars
    /\ InitCodecVars
    /\ mmap \in EditImages
    /\ vhf_range = decode_ranges(Vhfl(mmap), Vhfh(mmap))
    /\ uhf_range = decode_ranges(Uhfl(mmap), Uhfh(mmap))

\* radio.set_memory(mem), mem empty or not; a call that raises leaves the
\* radio object usable for the next call
EditMemory ==
    /\ pc = "edit"
    /\ \E mem \in EditMems :
         LET out == set_memory(mmap, mem)
         IN  /\ call' = [name |-> "set_memory", number |-> NumSel(mem.number)]
             /\ mmap' = out.mmap
             /\ result' = IF out.ok THEN [kind |-> "ok"]
                          ELSE [kind |-> "raise", error |-> out.err]
    /\ UNCHANGED <<pc, sessionVars, vhf_range, uhf_range, prev, setarg, bw_shift>>

\* radio.get_settings(): the settings tab is shown
EditShowSettings ==
    /\ pc = "edit"
    /\ bw_shift' = get_settings(mmap, bw_shift).bw_shift
    /\ call' = [name |-> "get_settings"]
    /\ result' = [kind |-> "none"]
    /\ UNCHANGED <<pc, sessionVars, mmap, vhf_range, uhf_range, prev, setarg>>

\* radio.set_settings(uisettings)
EditSettings ==
    /\ pc = "edit"
    /\ \E uisettings \in EditUiSettings :
         mmap' = set_settings(mmap, bw_shift, uisettings)
    /\ call' = [name |-> "set_settings"]
    /\ result' = [kind |-> "ok"]
    /\ UNCHANGED <<pc, sessionVars, vhf_range, uhf_range, prev, setarg, bw_shift>>

NextEdit ==
    \/ EditMemory
    \/ EditShowSettings
    \/ EditSettings

SpecEdit == InitEdit /\ [][NextEdit]_vars

-----------------------------------------------------------------------------
(* Claims on the edited image (specification SpecEdit)                     *)

\* addresses of the 22 channel records: emg, channels 1..20, rly
RecordBases == {16 * k : k \in 0..20} \cup {368}

\* the flag byte of the record at base
FlagByteAt(base) == mmap[base + 11]

RecordEmptyAt(base) == mmap[base + 1] = 255

\* C22: after any sequence of set_memory calls (any of the selectors, duplex
\* in "", "+", "-", "split", empty or not, raising or not) on an image whose
\* records start valid, every channel record that is not empty has at most
\* one of the offset-plus (0x02) and offset-minus (0x01) flags set.
C22_OneDirection ==
    \A base \in RecordBases :
        ~RecordEmptyAt(base) => (FlagByteAt(base) % 4) # 3

\* the records of the initial images at base
InitialRecords(base) == {Slice(image, base, 16) : image \in EditImages}

\* after edits of the three channels: emergency holds an offset up, relay
\* was erased, and channel 20 was last given an offset down
C22_Witness ==
    /\ call.name = "set_memory"
    /\ call.number = NumSel(20)
    /\ result.kind = "ok"
    /\ Slice(mmap, 0, 16) \notin InitialRecords(0)
    /\ (mmap[0 + 11] % 4) = 2
    /\ Slice(mmap, 368, 16) = [j \in 1..16 |-> 255]
    /\ Slice(mmap, 320, 16) \notin InitialRecords(320)
    /\ mmap[320 + 1] # 255
    /\ (mmap[320 + 11] % 4) = 1

\* the address of the selector's slice, from the memory map
SliceBase(number) ==
    IF number.num = -2 THEN 0
    ELSE IF number.num = -1 THEN 368
    ELSE 16 + 16 * (number.num - 1)

\* C23: set_memory on one selector (emergency at 0x000, channel i at
\* 0x010 + 16(i-1), relay at 0x170) changes only the 16 bytes of that
\* selector's slice: every other byte of the image, the settings and
\* 0x180-0x7FF included, keeps its value; and set_settings changes no byte
\* of a channel record, the relay record included, nor of 0x180-0x7FF.
C23_OnlyOwnSlice ==
    [][ /\ Len(mmap') = Len(mmap)
        /\ call'.name = "set_memory" =>
             /\ SubSeq(mmap', 1, SliceBase(call'.number))
                    = SubSeq(mmap, 1, SliceBase(call'.number))
             /\ SubSeq(mmap', SliceBase(call'.number) + 17, MEM_SIZE)
                    = SubSeq(mmap, SliceBase(call'.number) + 17, MEM_SIZE)
        /\ call'.name = "set_settings" =>
             /\ SubSeq(mmap', 1, 336) = SubSeq(mmap, 1, 336)
             /\ SubSeq(mmap', 369, MEM_SIZE) = SubSeq(mmap, 369, MEM_SIZE)
        /\ call'.name = "get_settings" => mmap' = mmap ]_vars

\* set_memory has rewritten channel 20, with a tone that made it raise,
\* after set_settings had changed the settings and the relay record had
\* been rewritten
C23_Witness ==
    /\ call.name = "set_memory"
    /\ call.number = NumSel(20)
    /\ result.kind = "raise"
    /\ Slice(mmap, 320, 16) \notin InitialRecords(320)
    /\ Slice(mmap, 368, 16) \notin InitialRecords(368)
    /\ Slice(mmap, 336, 32) \notin {Slice(image, 336, 32) : image \in EditImages}

=============================================================================
